---- MODULE Spec2Model ----
(***************************************************************************)
(* Model of pdf_to_scorm/test.py: the PDF -> enhanced module -> HTML ->    *)
(* SCORM 1.2 package pipeline (main), and the progress script that the     *)
(* rendered page embeds (findAPI, updateProgress, markSectionComplete,     *)
(* init, checkAnswer).                                                     *)
(*                                                                         *)
(* A Python/JS string is a sequence of segments.  A segment is either a    *)
(* run of ordinary characters or one markup-significant character          *)
(* ("&", "<", ">", "\"", "'") or a line feed, so that html.escape and      *)
(* str.replace act segment by segment.                                     *)
(* A JSON value is a record [t, v]: t is its type, v its payload.          *)
(***************************************************************************)
EXTENDS Integers, Sequences, FiniteSets, TLC

VARIABLES
    config,            \* the CONFIG block (module globals) the run reads
    text,              \* extract_pdf_text's result
    service,           \* how the generation service answers this run
    pc,                \* main's position
    enhanced_content,  \* main's enhanced_content
    html_content,      \* main's html_content (the rendered document)
    manifest,          \* main's manifest
    launch_fs,         \* the file at LAUNCH_FILE
    manifest_fs,       \* the file at pdf_to_scorm/imsmanifest.xml
    zip_fs,            \* the file at OUTPUT_ZIP
    stdout,            \* what main has printed
    exit,              \* how the process ended
    mcall,             \* a call of build_manifest_scorm12 on its own: "pending", "returned"
    win,               \* the browsing contexts the rendered page is opened in
    walk,              \* where findAPI is on its way through them
    page,              \* the page's life: "closed", "loading", "ready", "unloaded"
    API,               \* the script's API: "null" or "API"
    progress,          \* the script's progress
    completedSections, \* the script's completedSections
    indicator,         \* .progress-fill's width and .progress-text's text
    calls,             \* the host API calls made so far, in order
    observed,          \* the sections the IntersectionObserver observes
    unload_handler,    \* the beforeunload listener is registered
    visible,           \* the sections now more than 80% in the viewport
    timers,            \* pending setTimeout(markSectionComplete, 2000), per section id
    scheduled,         \* number of timers set so far
    quiz_ui            \* per quiz block: checked radio, submit button, feedback

pipeline_vars == <<config, text, service, pc, enhanced_content, html_content,
                   manifest, launch_fs, manifest_fs, zip_fs, stdout, exit>>

manifest_vars == <<mcall>>

bridge_vars == <<win, walk, page, API, progress, completedSections, indicator, calls,
                 observed, unload_handler, visible, timers, scheduled, quiz_ui>>

vars == <<pipeline_vars, manifest_vars, bridge_vars>>

----------------------------------------------------------------------------
(* Bounds of the model *)
MaxSections == 3
MaxQuiz     == 2
MaxOptions  == 2
MaxTimers   == 3

----------------------------------------------------------------------------
(* Strings *)
LF == "\n"

\* html_escape_char as html.escape(s, quote=False) does it
html_escape_char_unquoted(c) ==
    CASE c = "&"  -> <<"&amp;">>
      [] c = "<"  -> <<"&lt;">>
      [] c = ">"  -> <<"&gt;">>
      [] OTHER    -> <<c>>

\* html.escape(s) on one character (quote=True is the default)
html_escape_char(c) ==
    CASE c = "&"  -> <<"&amp;">>
      [] c = "<"  -> <<"&lt;">>
      [] c = ">"  -> <<"&gt;">>
      [] c = "\"" -> <<"&quot;">>
      [] c = "'"  -> <<"&#x27;">>
      [] OTHER    -> <<c>>

RECURSIVE html_escape(_)
html_escape(s) ==
    IF s = << >> THEN << >> ELSE html_escape_char(Head(s)) \o html_escape(Tail(s))

RECURSIVE replace_lf_br(_)
replace_lf_br(s) ==
    IF s = << >> THEN << >>
    ELSE (IF Head(s) = LF THEN <<"<br>">> ELSE <<Head(s)>>) \o replace_lf_br(Tail(s))

----------------------------------------------------------------------------
(* JSON values, as json.loads builds them *)
JStr(s)  == [t |-> "str",  v |-> s]
JInt(n)  == [t |-> "int",  v |-> n]
JList(l) == [t |-> "list", v |-> l]
JDict(d) == [t |-> "dict", v |-> d]
JNull    == [t |-> "null", v |-> 0]

Has(d, k) == k \in DOMAIN d.v
Get(d, k, default) == IF Has(d, k) THEN d.v[k] ELSE default
\* bool(x) of an if-test
Truthy(x) ==
    CASE x.t = "null" -> FALSE
      [] x.t = "int"  -> x.v # 0
      [] x.t = "dict" -> DOMAIN x.v # {}
      [] OTHER        -> x.v # << >>
\* len(x) raises TypeError unless x is sized
Sized(x) == x.t \in {"str", "list", "dict"}

\* f with key k removed
Without(f, k) == [x \in DOMAIN f \ {k} |-> f[x]]

----------------------------------------------------------------------------
(* CONFIG, lines 12-20 *)
PDF_INPUT         == "./pdf_to_scorm/Lesson Plan 2 - Argument Construction.docx.pdf"
PACKAGE_TITLE     == <<"Lesson Plan 2 - Argument Construction">>
SCO_IDENTIFIER    == "SCO-1"
ORG_IDENTIFIER    == "ORG-1"
COURSE_IDENTIFIER == "COURSE-ARG-CONSTRUCT"
OUTPUT_ZIP        == "pdf_to_scorm/scorm_package.zip"
LAUNCH_FILE       == "pdf_to_scorm/index.html"
MANIFEST_FILE     == "pdf_to_scorm/imsmanifest.xml"

CONFIG ==
    [title |-> PACKAGE_TITLE, org_id |-> ORG_IDENTIFIER, sco_id |-> SCO_IDENTIFIER,
     course_id |-> COURSE_IDENTIFIER, launch_file |-> LAUNCH_FILE]

\* what extract_pdf_text may return (the text extraction itself is not modelled)
RawTexts == { << >>, <<"plain text">>, <<"a ", "<", "b", ">", LF, "c ", "&", " d">> }

----------------------------------------------------------------------------
(* The generation service.  A behaviour is what the service does with the  *)
(* one request of the run: the call raises, or it returns a body that is   *)
(* not JSON, or a JSON object.  The JSON objects follow the schema of the  *)
(* prompt (lines 61-78) with nS sections and nQ quiz items of nOpt options *)
(* whose "correct" is `correct`; the other kinds drop or void a field.     *)
(***************************************************************************)
JsonKinds == {"json", "missing_sections", "null_sections", "section_without_title",
              "quiz_without_options"}

ServiceBehaviours ==
    [kind : {"transport_error", "not_json"}, nS : {0}, nQ : {0}, nOpt : {0}, correct : {0}]
    \cup [kind : {"json"}, nS : 0..MaxSections, nQ : {0}, nOpt : {0}, correct : {0}]
    \cup [kind : {"json"}, nS : 0..MaxSections, nQ : 1..MaxQuiz, nOpt : 1..MaxOptions,
          correct : -1..MaxOptions]
    \cup [kind : JsonKinds \ {"json"}, nS : {1}, nQ : {1}, nOpt : {2}, correct : {0}]

SectionOf(b, i) ==
    LET full == [title   |-> JStr(<<"Part ", "&", " parcel">>),
                 content |-> JStr(<<"x ", "<", " y", LF, "z">>)]
    IN  JDict(IF b.kind = "section_without_title" THEN Without(full, "title") ELSE full)

QuizItemOf(b, i) ==
    LET full == [question    |-> JStr(<<"Which one?">>),
                 options     |-> JList([j \in 1..b.nOpt |-> JStr(<<"Option ", "\"">>)]),
                 correct     |-> JInt(b.correct),
                 explanation |-> JStr(<<"Because 1 ", "<", " 2">>)]
    IN  JDict(IF b.kind = "quiz_without_options" THEN Without(full, "options") ELSE full)

JsonOf(b) ==
    LET full == [introduction        |-> JStr(<<"An introduction">>),
                 learning_objectives |-> JList(<<JStr(<<"objective 1">>), JStr(<<"objective 2">>)>>),
                 sections            |-> JList([i \in 1..b.nS |-> SectionOf(b, i)]),
                 quiz                |-> JList([i \in 1..b.nQ |-> QuizItemOf(b, i)]),
                 activity            |-> JDict([title       |-> JStr(<<"Activity Title">>),
                                                description |-> JStr(<<"Activity instructions">>)]),
                 summary             |-> JStr(<<"Key takeaways">>)]
    IN  JDict(CASE b.kind = "missing_sections" -> Without(full, "sections")
                [] b.kind = "null_sections"    -> [full EXCEPT !.sections = JNull]
                [] OTHER                       -> full)

\* client.chat.completions.create(...): raises, or returns the message content
create(b) ==
    IF b.kind = "transport_error" THEN [raised |-> TRUE, is_json |-> FALSE, value |-> JNull]
    ELSE [raised |-> FALSE, is_json |-> b.kind \in JsonKinds,
          value |-> IF b.kind \in JsonKinds THEN JsonOf(b) ELSE JNull]

\* json.loads(content): raises on a body that is not JSON
json_loads(response) ==
    IF response.is_json THEN [raised |-> FALSE, value |-> response.value]
    ELSE [raised |-> TRUE, value |-> JNull]

\* the except branch of enhance_content_with_ai
enhance_fallback(raw_text, title) ==
    JDict([introduction |-> JStr(<<"Welcome to ">> \o title \o
                <<". This lesson will help you understand key concepts and develop practical skills.">>),
           learning_objectives |-> JList(<<JStr(<<"Understand core concepts">>),
                                           JStr(<<"Apply knowledge practically">>),
                                           JStr(<<"Demonstrate mastery">>)>>),
           sections |-> JList(<<JDict([title |-> JStr(<<"Content">>), content |-> JStr(raw_text)])>>),
           quiz     |-> JList(<< >>),
           activity |-> JDict([title |-> JStr(<<"Practice Exercise">>),
                               description |-> JStr(<<"Apply what you", "'",
                                   "ve learned in a practical exercise.">>)]),
           summary  |-> JStr(<<"Review the key concepts covered in this lesson and practice applying them.">>)])

enhance_content_with_ai(raw_text, title, b) ==
    LET response == create(b)
        parsed   == json_loads(response)
    IN  IF response.raised \/ parsed.raised
        THEN enhance_fallback(raw_text, title)
        ELSE parsed.value

----------------------------------------------------------------------------
(* build_enhanced_html.  The rendered document is kept as its blocks: the  *)
(* text placed in each element and the attributes the script reads.        *)
(***************************************************************************)
IsStr(x)  == x.t = "str"
IsList(x) == x.t = "list"
IsDict(x) == x.t = "dict"
EmptyList == JList(<< >>)
EmptyStr  == JStr(<< >>)

\* str(b) of a Python bool, as an f-string formats it
py_str_bool(b) == IF b THEN "True" ELSE "False"

\* j == quiz_item['correct'] for the int j
py_eq_int(j, x) == x.t = "int" /\ x.v = j

\* the loop body of lines 110-118 runs without raising on this section
section_renders(section) ==
    /\ IsDict(section)
    /\ Has(section, "title")   /\ IsStr(section.v["title"])
    /\ Has(section, "content") /\ IsStr(section.v["content"])

\* the loop body of lines 127-148 runs without raising on this quiz item
quiz_item_renders(quiz_item) ==
    /\ IsDict(quiz_item)
    /\ Has(quiz_item, "options") /\ IsList(quiz_item.v["options"])
    /\ \A j \in DOMAIN quiz_item.v["options"].v :
          /\ Has(quiz_item, "correct")
          /\ IsStr(quiz_item.v["options"].v[j])
    /\ Has(quiz_item, "question") /\ IsStr(quiz_item.v["question"])
    /\ IsStr(Get(quiz_item, "explanation", EmptyStr))

\* build_enhanced_html returns (no KeyError, TypeError or AttributeError)
html_renders(ec, title) ==
    LET sections   == Get(ec, "sections", EmptyList)
        objectives == Get(ec, "learning_objectives", EmptyList)
        quiz       == Get(ec, "quiz", EmptyList)
        activity   == Get(ec, "activity", JDict(<< >>))
    IN  /\ IsList(sections)   /\ \A i \in DOMAIN sections.v : section_renders(sections.v[i])
        /\ IsList(objectives) /\ \A i \in DOMAIN objectives.v : IsStr(objectives.v[i])
        /\ IsList(quiz)       /\ \A i \in DOMAIN quiz.v : quiz_item_renders(quiz.v[i])
        /\ IsStr(Get(ec, "introduction", EmptyStr))
        /\ Truthy(activity) =>
              /\ IsDict(activity)
              /\ IsStr(Get(activity, "title", JStr(<<"Practice Activity">>)))
              /\ IsStr(Get(activity, "description", EmptyStr))
        /\ IsStr(Get(ec, "summary", EmptyStr))

section_html(section, i) ==
    [id      |-> "section-" \o ToString(i),
     h2      |-> html_escape(section.v["title"].v),
     content |-> replace_lf_br(html_escape(section.v["content"].v))]

option_html(quiz_item, i, j) ==
    [name         |-> "quiz-" \o ToString(i),
     value        |-> j,
     data_correct |-> py_str_bool(py_eq_int(j, quiz_item.v["correct"])),
     span         |-> html_escape(quiz_item.v["options"].v[j + 1].v)]

quiz_html(quiz_item, i) ==
    [data_quiz   |-> i,
     h3          |-> html_escape(quiz_item.v["question"].v),
     options     |-> [j \in DOMAIN quiz_item.v["options"].v |-> option_html(quiz_item, i, j - 1)],
     onclick     |-> i,
     explanation |-> html_escape(Get(quiz_item, "explanation", EmptyStr).v)]

build_enhanced_html(ec, title) ==
    LET sections   == Get(ec, "sections", EmptyList)
        objectives == Get(ec, "learning_objectives", EmptyList)
        quiz       == Get(ec, "quiz", EmptyList)
        activity   == Get(ec, "activity", JDict(<< >>))
    IN  [h1            |-> html_escape(title),
         introduction  |-> html_escape(Get(ec, "introduction", EmptyStr).v),
         objectives    |-> [i \in DOMAIN objectives.v |-> html_escape(objectives.v[i].v)],
         sections      |-> [i \in DOMAIN sections.v |-> section_html(sections.v[i], i - 1)],
         quiz_section  |-> IF Truthy(quiz)
                           THEN [i \in DOMAIN quiz.v |-> quiz_html(quiz.v[i], i - 1)]
                           ELSE << >>,
         activity      |-> IF Truthy(activity)
                           THEN <<html_escape(Get(activity, "title", JStr(<<"Practice Activity">>)).v),
                                  html_escape(Get(activity, "description", EmptyStr).v)>>
                           ELSE << >>,
         summary       |-> html_escape(Get(ec, "summary", EmptyStr).v),
         totalSections |-> Len(sections.v)]

NoDocument ==
    [h1 |-> << >>, introduction |-> << >>, objectives |-> << >>, sections |-> << >>,
     quiz_section |-> << >>, activity |-> << >>, summary |-> << >>, totalSections |-> 0]

----------------------------------------------------------------------------
(* build_manifest_scorm12.  The manifest is kept as the element tree its   *)
(* text parses to: every element with its attributes, children in order.   *)
(***************************************************************************)
\* lines 619-624
organization_element(title, org_id, sco_id) ==
    [identifier |-> org_id,
     structure  |-> "hierarchical",
     title      |-> html_escape(title),
     item       |-> << [identifier    |-> "ITEM-" \o sco_id,
                        identifierref |-> sco_id,
                        isvisible     |-> "true",
                        title         |-> html_escape(title)] >>]

\* resource_element with the file element naming the archive entry, not the launch file
resource_element_entry_name(sco_id, launch_file) ==
    [identifier |-> sco_id,
     type       |-> "webcontent",
     scormtype  |-> "sco",
     href       |-> launch_file,
     file       |-> << [href |-> "index.html"] >>]

\* lines 627-629
resource_element(sco_id, launch_file) ==
    [identifier |-> sco_id,
     type       |-> "webcontent",
     scormtype  |-> "sco",
     href       |-> launch_file,
     file       |-> << [href |-> launch_file] >>]

build_manifest_scorm12(title, org_id, sco_id, course_id, launch_file) ==
    [identifier    |-> course_id,
     organizations |-> [default      |-> org_id,
                        organization |-> << organization_element(title, org_id, sco_id) >>],
     resources     |-> << resource_element(sco_id, launch_file) >>]

NoManifest ==
    [identifier |-> "", organizations |-> [default |-> "", organization |-> << >>],
     resources |-> << >>]

----------------------------------------------------------------------------
(* main *)

\* the literal of main's own except branch, lines 652-659
main_fallback(raw_text, title) ==
    JDict([introduction |-> JStr(<<"Welcome to ">> \o title),
           learning_objectives |-> JList(<<JStr(<<"Understand core concepts">>),
                                           JStr(<<"Apply knowledge practically">>)>>),
           sections |-> JList(<<JDict([title |-> JStr(<<"Content">>), content |-> JStr(raw_text)])>>),
           quiz     |-> JList(<< >>),
           activity |-> JDict([title |-> JStr(<<"Practice Exercise">>),
                               description |-> JStr(<<"Apply what you", "'", "ve learned.">>)]),
           summary  |-> JStr(<<"Review the key concepts covered in this lesson.">>)])

\* the three len(...) of lines 646-648 return
counts_print(ec) ==
    /\ Sized(Get(ec, "sections", EmptyList))
    /\ Sized(Get(ec, "quiz", EmptyList))
    /\ Sized(Get(ec, "learning_objectives", EmptyList))

NoFile == [state |-> "absent"]
NoZip  == [state |-> "absent", entries |-> << >>]

\* an uncaught exception ends main: the traceback is the reported failure
Abort ==
    /\ pc' = "failed"
    /\ exit' = "exception"

\* lines 644-648 and 650-651: what the try block or the except branch prints
enhance_prints(b, ec) ==
    (IF b.kind \in {"transport_error", "not_json"} THEN <<"AI enhancement failed">> ELSE << >>)
    \o (IF counts_print(ec) THEN <<"Generated sections">>
        ELSE <<"Using fallback content structure">>)

\* main_enhanced_content with the service's exception caught by main's except branch
\* instead of enhance_content_with_ai's
main_enhanced_content_outer_except(raw_text, title, b) ==
    LET ec == enhance_content_with_ai(raw_text, title, b)
    IN  IF counts_print(ec) /\ ~create(b).raised THEN ec ELSE main_fallback(raw_text, title)

\* lines 644-659: the value main's enhanced_content gets
main_enhanced_content(raw_text, title, b) ==
    LET ec == enhance_content_with_ai(raw_text, title, b)
    IN  IF counts_print(ec) THEN ec ELSE main_fallback(raw_text, title)

\* lines 642-659
Enhance ==
    /\ pc = "enhance"
    /\ enhanced_content' = main_enhanced_content(text, config.title, service)
    /\ stdout' = stdout \o enhance_prints(service,
                               enhance_content_with_ai(text, config.title, service))
    /\ pc' = "render"
    /\ UNCHANGED <<manifest_vars, bridge_vars>>
    /\ UNCHANGED <<config, text, service, html_content, manifest, launch_fs,
                   manifest_fs, zip_fs, exit>>

\* line 663
Render ==
    /\ pc = "render"
    /\ IF html_renders(enhanced_content, config.title)
       THEN /\ html_content' = build_enhanced_html(enhanced_content, config.title)
            /\ pc' = "write_html"
            /\ UNCHANGED exit
       ELSE /\ Abort
            /\ UNCHANGED html_content
    /\ UNCHANGED <<manifest_vars, bridge_vars>>
    /\ UNCHANGED <<config, text, service, enhanced_content, manifest, launch_fs,
                   manifest_fs, zip_fs, stdout>>

\* lines 664-666: open(LAUNCH_FILE, 'w') truncates, then f.write
WriteLaunch ==
    /\ pc = "write_html"
    /\ \E io \in {"ok", "open_fails", "write_fails"} :
          CASE io = "ok" ->
                 /\ launch_fs' = [state |-> "written", content |-> html_content]
                 /\ stdout' = Append(stdout, "Created interactive learning module")
                 /\ pc' = "manifest"
                 /\ UNCHANGED exit
            [] io = "open_fails" ->
                 /\ Abort
                 /\ UNCHANGED <<launch_fs, stdout>>
            [] io = "write_fails" ->
                 /\ launch_fs' = [state |-> "partial"]
                 /\ Abort
                 /\ UNCHANGED stdout
    /\ UNCHANGED <<manifest_vars, bridge_vars>>
    /\ UNCHANGED <<config, text, service, enhanced_content, html_content, manifest,
                   manifest_fs, zip_fs>>

\* lines 670-673
WriteManifest ==
    /\ pc = "manifest"
    /\ manifest' = build_manifest_scorm12(config.title, config.org_id, config.sco_id,
                                          config.course_id, config.launch_file)
    /\ \E io \in {"ok", "open_fails", "write_fails"} :
          CASE io = "ok" ->
                 /\ manifest_fs' = [state |-> "written", content |-> manifest']
                 /\ stdout' = Append(stdout, "SCORM 1.2 manifest created")
                 /\ pc' = "zip_open"
                 /\ UNCHANGED exit
            [] io = "open_fails" ->
                 /\ Abort
                 /\ UNCHANGED <<manifest_fs, stdout>>
            [] io = "write_fails" ->
                 /\ manifest_fs' = [state |-> "partial"]
                 /\ Abort
                 /\ UNCHANGED stdout
    /\ UNCHANGED <<manifest_vars, bridge_vars>>
    /\ UNCHANGED <<config, text, service, enhanced_content, html_content, launch_fs,
                   zip_fs>>

\* line 677: ZipFile(OUTPUT_ZIP, 'w') creates or truncates the file
ZipOpen ==
    /\ pc = "zip_open"
    /\ \E ok \in BOOLEAN :
          IF ok THEN /\ zip_fs' = [state |-> "open", entries |-> << >>]
                     /\ pc' = "zip_manifest"
                     /\ UNCHANGED exit
                ELSE /\ Abort
                     /\ UNCHANGED zip_fs
    /\ UNCHANGED <<manifest_vars, bridge_vars>>
    /\ UNCHANGED <<config, text, service, enhanced_content, html_content, manifest,
                   launch_fs, manifest_fs, stdout>>

\* zipf.write(filename, arcname) inside the with block: the entry is added; or the
\* source cannot be read and nothing is added; or the copy breaks off and the entry
\* is recorded short.  On an exception ZipFile.__exit__ closes the archive: the
\* directory of the entries recorded so far is written, and the exception goes on.
zip_write(arcname, source, next_pc) ==
    \E io \in {"ok", "source_fails", "copy_fails"} :
       LET entry == [name |-> arcname, source |-> source, complete |-> io = "ok"]
           added == IF io = "source_fails" THEN zip_fs.entries
                    ELSE Append(zip_fs.entries, entry)
       IN  IF io = "ok"
           THEN /\ zip_fs' = [zip_fs EXCEPT !.entries = added]
                /\ pc' = next_pc
                /\ UNCHANGED exit
           ELSE /\ zip_fs' = [state |-> "closed", entries |-> added]
                /\ Abort

\* line 678
ZipWriteManifest ==
    /\ pc = "zip_manifest"
    /\ zip_write("imsmanifest.xml", MANIFEST_FILE, "zip_launch")
    /\ UNCHANGED <<manifest_vars, bridge_vars>>
    /\ UNCHANGED <<config, text, service, enhanced_content, html_content, manifest,
                   launch_fs, manifest_fs, stdout>>

\* line 679
ZipWriteLaunch ==
    /\ pc = "zip_launch"
    /\ zip_write("index.html", config.launch_file, "zip_close")
    /\ UNCHANGED <<manifest_vars, bridge_vars>>
    /\ UNCHANGED <<config, text, service, enhanced_content, html_content, manifest,
                   launch_fs, manifest_fs, stdout>>

\* the normal exit of the with block of line 677
ZipClose ==
    /\ pc = "zip_close"
    /\ \E ok \in BOOLEAN :
          IF ok THEN /\ zip_fs' = [zip_fs EXCEPT !.state = "closed"]
                     /\ pc' = "report"
                     /\ UNCHANGED exit
                ELSE /\ zip_fs' = [zip_fs EXCEPT !.state = "corrupt"]
                     /\ Abort
    /\ UNCHANGED <<manifest_vars, bridge_vars>>
    /\ UNCHANGED <<config, text, service, enhanced_content, html_content, manifest,
                   launch_fs, manifest_fs, stdout>>

\* lines 681-684
Report ==
    /\ pc = "report"
    /\ stdout' = Append(stdout, "SCORM package created successfully!")
    /\ pc' = "done"
    /\ exit' = "ok"
    /\ UNCHANGED <<manifest_vars, bridge_vars>>
    /\ UNCHANGED <<config, text, service, enhanced_content, html_content, manifest,
                   launch_fs, manifest_fs, zip_fs>>

----------------------------------------------------------------------------
(* The script of the rendered page, lines 151-243 *)

\* the cap of findAPI's loop, line 161
MaxHops == 500

\* A chain of browsing contexts: context 0, its parent 1, ... up to the top context
\* `depth`, which is its own parent.  api_at is the context holding window.API
\* (-1: none does).  depth = -1 is "no such window" (window.opener is null).
NoWindow == [depth |-> -1, api_at |-> -1]

Top      == [depth |-> 0, api_at |-> -1]
Framed   == [depth |-> 2, api_at |-> 2]
Deepest  == [depth |-> MaxHops, api_at |-> MaxHops]
TooDeep  == [depth |-> MaxHops + 1, api_at |-> MaxHops + 1]
PoppedUp == [depth |-> 0, api_at |-> 0]

\* What the host's API object does when called: it answers every call, or it throws
\* on each call of one kind.
HostFaults == {"initialize_throws", "score_throws", "status_throws", "commit_throws",
               "finish_throws"}

\* The places the page is opened in: the window itself (`self`), window.opener, and
\* the host behind the API object, if there is one.
Windows ==
    [self : {Top, TooDeep}, opener : {NoWindow, Top}, host : {"ok"}]
    \cup [self : {Framed, Deepest}, opener : {NoWindow}, host : {"ok"}]
    \cup [self : {Top}, opener : {PoppedUp}, host : {"ok"}]
    \cup [self : {Framed}, opener : {NoWindow}, host : HostFaults]

\* findAPI's position: the chain it walks, its win (context w) and its n
StartOf(on) == [on |-> on, w |-> 0, n |-> 0]

chain_of(w, on) == IF on = "self" THEN w.self ELSE w.opener

\* loop_condition without the cap on n
loop_condition_uncapped(chain, at) ==
    at.w # chain.api_at /\ at.w < chain.depth

\* loop_condition with the cap off by one: n <= 500
loop_condition_cap_inclusive(chain, at) ==
    at.w # chain.api_at /\ at.w < chain.depth /\ at.n <= MaxHops

\* line 161: the condition of the while loop
loop_condition(chain, at) ==
    at.w # chain.api_at /\ at.w < chain.depth /\ at.n < MaxHops

\* line 164: win.API || null
findAPI_result(chain, at) == IF at.w = chain.api_at THEN "API" ELSE "null"

\* JS numbers the script computes: an integer, NaN or Infinity
Num(n)   == [kind |-> "number", n |-> n]
NaN      == [kind |-> "NaN", n |-> 0]
Infinity == [kind |-> "Infinity", n |-> 0]

\* Number.prototype.toString / string concatenation of a number
js_to_string(x) == IF x.kind = "number" THEN ToString(x.n) ELSE x.kind

\* round_percent with Math.floor in place of Math.round
round_percent_floor(size, totalSections) ==
    IF totalSections = 0
    THEN (IF size = 0 THEN NaN ELSE Infinity)
    ELSE Num((100 * size) \div totalSections)

\* line 168: Math.round((size / totalSections) * 100); Math.round rounds half up
round_percent(size, totalSections) ==
    IF totalSections = 0
    THEN (IF size = 0 THEN NaN ELSE Infinity)
    ELSE Num((200 * size + totalSections) \div (2 * totalSections))

\* lines 169-170; a width that is no CSS length ("NaN%", "Infinity%") is ignored
shown(p, before) ==
    [fill |-> IF p.kind = "number" THEN js_to_string(p) \o "%" ELSE before.fill,
     text |-> js_to_string(p) \o "% Complete"]

\* A host call: the operation, its arguments, and whether the host threw
Call(op, key, value, threw) == [op |-> op, key |-> key, value |-> value, threw |-> threw]

\* lesson_status comparing the number with the string "100" (===: never equal)
lesson_status_string_compare(p) == "incomplete"

\* line 175
lesson_status(p) == IF p = Num(100) THEN "completed" ELSE "incomplete"

\* lines 172-178: the calls of one report; a call that throws ends the try block
report_calls(p, host) ==
    LET score  == Call("LMSSetValue", "cmi.core.score.raw", js_to_string(p), host = "score_throws")
        status == Call("LMSSetValue", "cmi.core.lesson_status", lesson_status(p), host = "status_throws")
        commit == Call("LMSCommit", "", "", host = "commit_throws")
    IN  CASE host = "score_throws"  -> <<score>>
          [] host = "status_throws" -> <<score, status>>
          [] OTHER                  -> <<score, status, commit>>

\* updateProgress reporting to the host first and outside a try block: a call that
\* throws ends the function before the indicator is written
updateProgress_unguarded(api, completed, before) ==
    LET p      == round_percent(Cardinality(completed), html_content.totalSections)
        thrown == api = "API" /\ win.host \in {"score_throws", "status_throws", "commit_throws"}
    IN  /\ progress' = p
        /\ indicator' = IF thrown THEN indicator ELSE shown(p, indicator)
        /\ calls' = IF api = "API" THEN before \o report_calls(p, win.host) ELSE before

\* lines 167-179, with completedSections as given
updateProgress(api, completed, before) ==
    LET p == round_percent(Cardinality(completed), html_content.totalSections)
    IN  /\ progress' = p
        /\ indicator' = shown(p, indicator)
        /\ calls' = IF api = "API" THEN before \o report_calls(p, win.host) ELSE before

\* lines 181-184
markSectionComplete(sectionId) ==
    /\ completedSections' = completedSections \cup {sectionId}
    /\ updateProgress(API, completedSections', calls)

quiz_id(i) == "quiz-" \o ToString(i)

\* the ids of the .content-section blocks / the data-quiz values of the document
SectionIds == { html_content.sections[i].id : i \in DOMAIN html_content.sections }
QuizIndexes == { html_content.quiz_section[i].data_quiz : i \in DOMAIN html_content.quiz_section }

QuizBlock(q) == html_content.quiz_section[q + 1]

FreshQuiz == [checked |-> -1, disabled |-> FALSE, label |-> "Submit Answer", feedback |-> "hidden"]

\* lines 161-163: one turn of the loop, n++; win = win.parent
findAPI_hop ==
    /\ page = "loading"
    /\ loop_condition(chain_of(win, walk.on), walk)
    /\ walk' = [walk EXCEPT !.w = @ + 1, !.n = @ + 1]
    /\ UNCHANGED <<win, page, API, progress, completedSections, indicator, calls,
                   observed, unload_handler, visible, timers, scheduled, quiz_ui>>
    /\ UNCHANGED <<pipeline_vars, manifest_vars>>

\* line 188: findAPI(window) gave null and window.opener is there: findAPI(window.opener)
findAPI_opener ==
    /\ page = "loading"
    /\ walk.on = "self"
    /\ ~loop_condition(win.self, walk)
    /\ findAPI_result(win.self, walk) = "null"
    /\ win.opener # NoWindow
    /\ walk' = StartOf("opener")
    /\ UNCHANGED <<win, page, API, progress, completedSections, indicator, calls,
                   observed, unload_handler, visible, timers, scheduled, quiz_ui>>
    /\ UNCHANGED <<pipeline_vars, manifest_vars>>

\* lines 186-212 (run once: lines 237-241), from the assignment of line 188 on
init ==
    /\ page = "loading"
    /\ ~loop_condition(chain_of(win, walk.on), walk)
    /\ \/ findAPI_result(chain_of(win, walk.on), walk) = "API"
       \/ walk.on = "opener"
       \/ win.opener = NoWindow
    /\ page' = "ready"
    /\ API' = findAPI_result(chain_of(win, walk.on), walk)
    /\ IF API' = "API"
       THEN updateProgress("API", completedSections,
                 <<Call("LMSInitialize", "", "", win.host = "initialize_throws")>>)
       ELSE UNCHANGED <<progress, indicator, calls>>
    /\ observed' = SectionIds
    /\ unload_handler' = TRUE
    /\ UNCHANGED <<win, walk, completedSections, visible, timers, scheduled, quiz_ui>>
    /\ UNCHANGED <<pipeline_vars, manifest_vars>>

\* lines 195-201, an entry with isIntersecting and intersectionRatio > 0.8
SectionShown(id) ==
    /\ page = "ready"
    /\ id \in observed \ visible
    /\ scheduled < MaxTimers
    /\ visible' = visible \cup {id}
    /\ timers' = [timers EXCEPT ![id] = @ + 1]
    /\ scheduled' = scheduled + 1
    /\ UNCHANGED <<win, walk, page, API, progress, completedSections, indicator, calls,
                   observed, unload_handler, quiz_ui>>
    /\ UNCHANGED <<pipeline_vars, manifest_vars>>

\* lines 195-201, an entry that does not pass the test of line 197
SectionHidden(id) ==
    /\ page = "ready"
    /\ id \in observed \cap visible
    /\ visible' = visible \ {id}
    /\ UNCHANGED <<win, walk, page, API, progress, completedSections, indicator, calls,
                   observed, unload_handler, timers, scheduled, quiz_ui>>
    /\ UNCHANGED <<pipeline_vars, manifest_vars>>

\* line 198: the timeout set 2000 ms ago runs
TimerFires(id) ==
    /\ page = "ready"
    /\ timers[id] > 0
    /\ timers' = [timers EXCEPT ![id] = @ - 1]
    /\ markSectionComplete(id)
    /\ UNCHANGED <<win, walk, page, API, observed, unload_handler, visible, scheduled, quiz_ui>>
    /\ UNCHANGED <<pipeline_vars, manifest_vars>>

\* the user checks radio j of quiz block q (lines 131-134)
SelectOption(q, j) ==
    /\ page = "ready"
    /\ j \in { QuizBlock(q).options[o].value : o \in DOMAIN QuizBlock(q).options }
    /\ quiz_ui[q].checked # j
    /\ quiz_ui' = [quiz_ui EXCEPT ![q].checked = j]
    /\ UNCHANGED <<win, walk, page, API, progress, completedSections, indicator, calls,
                   observed, unload_handler, visible, timers, scheduled>>
    /\ UNCHANGED <<pipeline_vars, manifest_vars>>

\* dataset_correct testing for the spelling the renderer writes: === 'True'
dataset_correct_as_rendered(quizIndex, selected) ==
    QuizBlock(quizIndex).options[selected + 1].data_correct = py_str_bool(TRUE)

\* dataset_correct with the test negated: !== 'true'
dataset_correct_negated(quizIndex, selected) ==
    QuizBlock(quizIndex).options[selected + 1].data_correct # "true"

\* line 226: selected.dataset.correct === 'true'
dataset_correct(quizIndex, selected) ==
    QuizBlock(quizIndex).options[selected + 1].data_correct = "true"

\* lines 215-235, run by the click of line 143 (a disabled button takes no click)
checkAnswer(quizIndex) ==
    /\ page = "ready"
    /\ ~quiz_ui[quizIndex].disabled
    /\ LET selected == quiz_ui[quizIndex].checked IN
       IF selected = -1
       THEN \* alert('Please select an answer'); return
            UNCHANGED <<quiz_ui, completedSections, progress, indicator, calls>>
       ELSE LET isCorrect == dataset_correct(quizIndex, selected)
            IN  /\ quiz_ui' = [quiz_ui EXCEPT ![quizIndex] =
                       [checked  |-> selected,
                        disabled |-> TRUE,
                        label    |-> IF isCorrect THEN "Correct!" ELSE "Try Again",
                        feedback |-> IF isCorrect THEN "correct" ELSE "incorrect"]]
                /\ IF isCorrect
                   THEN markSectionComplete(quiz_id(quizIndex))
                   ELSE UNCHANGED <<completedSections, progress, indicator, calls>>
    /\ UNCHANGED <<win, walk, page, API, observed, unload_handler, visible, timers, scheduled>>
    /\ UNCHANGED <<pipeline_vars, manifest_vars>>

\* beforeunload signalling the end of the session whether or not API is set
beforeunload_unconditional ==
    /\ page = "ready"
    /\ unload_handler
    /\ page' = "unloaded"
    /\ calls' = Append(calls, Call("LMSFinish", "", "", win.host = "finish_throws"))
    /\ UNCHANGED <<win, walk, API, progress, completedSections, indicator, observed,
                   unload_handler, visible, timers, scheduled, quiz_ui>>
    /\ UNCHANGED <<pipeline_vars, manifest_vars>>

\* lines 208-210
beforeunload ==
    /\ page = "ready"
    /\ unload_handler
    /\ page' = "unloaded"
    /\ IF API = "API"
       THEN calls' = Append(calls, Call("LMSFinish", "", "", win.host = "finish_throws"))
       ELSE UNCHANGED calls
    /\ UNCHANGED <<win, walk, API, progress, completedSections, indicator, observed,
                   unload_handler, visible, timers, scheduled, quiz_ui>>
    /\ UNCHANGED <<pipeline_vars, manifest_vars>>

----------------------------------------------------------------------------
(* Specifications *)

\* the page as the template leaves it (lines 155-157, 340, 561) before init runs
PageNotOpened ==
    /\ win = [self |-> Top, opener |-> NoWindow, host |-> "ok"]
    /\ walk = StartOf("self")
    /\ page = "closed"
    /\ API = "null"
    /\ progress = Num(0)
    /\ completedSections = {}
    /\ indicator = [fill |-> "0%", text |-> "0% Complete"]
    /\ calls = << >>
    /\ observed = {}
    /\ unload_handler = FALSE
    /\ visible = {}
    /\ timers = << >>
    /\ scheduled = 0
    /\ quiz_ui = << >>

\* main() starts; extract_pdf_text has returned
Init ==
    /\ config = CONFIG
    /\ text \in RawTexts
    /\ service \in ServiceBehaviours
    /\ pc = "enhance"
    /\ enhanced_content = JNull
    /\ html_content = NoDocument
    /\ manifest = NoManifest
    /\ launch_fs = NoFile
    /\ manifest_fs = NoFile
    /\ zip_fs = NoZip
    /\ stdout = << >>
    /\ exit = "running"
    /\ mcall = "none"
    /\ PageNotOpened

Next ==
    \/ Enhance
    \/ Render
    \/ WriteLaunch
    \/ WriteManifest
    \/ ZipOpen
    \/ ZipWriteManifest
    \/ ZipWriteLaunch
    \/ ZipClose
    \/ Report

Spec == Init /\ [][Next]_vars

(* build_manifest_scorm12 called on any descriptor *)
Titles      == { <<"Lesson">>, <<"Q", "&", "A ", "<", "1", ">">> }
OrgIds      == { "ORG-1", "ORG-2", "O" }
ScoIds      == { "SCO-1", "SCO-2", "ORG-1" }
CourseIds   == { "COURSE-ARG-CONSTRUCT", "C" }
LaunchFiles == { "pdf_to_scorm/index.html", "index.html", "a/b.htm" }

Descriptors ==
    [title : Titles, org_id : OrgIds, sco_id : ScoIds, course_id : CourseIds,
     launch_file : LaunchFiles]

InitManifest ==
    /\ config \in Descriptors
    /\ text = << >>
    /\ service = [kind |-> "transport_error", nS |-> 0, nQ |-> 0, nOpt |-> 0, correct |-> 0]
    /\ pc = "idle"
    /\ enhanced_content = JNull
    /\ html_content = NoDocument
    /\ manifest = NoManifest
    /\ launch_fs = NoFile
    /\ manifest_fs = NoFile
    /\ zip_fs = NoZip
    /\ stdout = << >>
    /\ exit = "running"
    /\ mcall = "pending"
    /\ PageNotOpened

\* lines 608-632, called with the descriptor's fields
CallBuildManifest ==
    /\ mcall = "pending"
    /\ manifest' = build_manifest_scorm12(config.title, config.org_id, config.sco_id,
                                          config.course_id, config.launch_file)
    /\ mcall' = "returned"
    /\ UNCHANGED <<config, text, service, pc, enhanced_content, html_content, launch_fs,
                   manifest_fs, zip_fs, stdout, exit>>
    /\ UNCHANGED bridge_vars

NextManifest == CallBuildManifest

SpecManifest == InitManifest /\ [][NextManifest]_vars

(* The rendered page of a finished run, opened in a browser *)
BridgeTexts == { <<"plain text">> }

BridgeBehaviours ==
    { b \in ServiceBehaviours :
         \/ b.kind = "transport_error"
         \/ /\ b.kind = "json"
            /\ b.nQ <= 1
            /\ b.nOpt \in {0, MaxOptions}
            /\ b.correct = 0 }

\* the state main ends in when no step fails (pc = "done")
FinishedRun(raw_text, b) ==
    /\ config = CONFIG
    /\ text = raw_text
    /\ service = b
    /\ pc = "done"
    /\ enhanced_content = main_enhanced_content(raw_text, PACKAGE_TITLE, b)
    /\ html_content = build_enhanced_html(enhanced_content, PACKAGE_TITLE)
    /\ manifest = build_manifest_scorm12(PACKAGE_TITLE, ORG_IDENTIFIER, SCO_IDENTIFIER,
                                         COURSE_IDENTIFIER, LAUNCH_FILE)
    /\ launch_fs = [state |-> "written", content |-> html_content]
    /\ manifest_fs = [state |-> "written", content |-> manifest]
    /\ zip_fs = [state |-> "closed",
                 entries |-> << [name |-> "imsmanifest.xml", source |-> MANIFEST_FILE,
                                 complete |-> TRUE],
                                [name |-> "index.html", source |-> LAUNCH_FILE,
                                 complete |-> TRUE] >>]
    /\ stdout = enhance_prints(b, enhance_content_with_ai(raw_text, PACKAGE_TITLE, b))
                \o <<"Created interactive learning module", "SCORM 1.2 manifest created",
                     "SCORM package created successfully!">>
    /\ exit = "ok"
    /\ mcall = "none"

InitBridge ==
    /\ \E raw_text \in BridgeTexts, b \in BridgeBehaviours : FinishedRun(raw_text, b)
    /\ win \in Windows
    /\ walk = StartOf("self")
    /\ page = "loading"
    /\ API = "null"
    /\ progress = Num(0)
    /\ completedSections = {}
    /\ indicator = [fill |-> "0%", text |-> "0% Complete"]
    /\ calls = << >>
    /\ observed = {}
    /\ unload_handler = FALSE
    /\ visible = {}
    /\ timers = [id \in SectionIds |-> 0]
    /\ scheduled = 0
    /\ quiz_ui = [q \in QuizIndexes |-> FreshQuiz]

NextBridge ==
    \/ findAPI_hop
    \/ findAPI_opener
    \/ init
    \/ \E id \in SectionIds : SectionShown(id)
    \/ \E id \in SectionIds : SectionHidden(id)
    \/ \E id \in SectionIds : TimerFires(id)
    \/ \E q \in QuizIndexes, j \in 0..(MaxOptions - 1) : SelectOption(q, j)
    \/ \E q \in QuizIndexes : checkAnswer(q)
    \/ beforeunload

SpecBridge == InitBridge /\ [][NextBridge]_vars

\* init is one run-to-completion task of the page (lines 237-241): once it has
\* started, its loops and its body are not held up
SpecBridgeFair == SpecBridge /\ WF_vars(findAPI_hop \/ findAPI_opener \/ init)

\* every finished run of Spec is a start of the page: Init of SpecBridge is reachable
FinishedRunIsReached == pc = "done" => FinishedRun(text, service)

----------------------------------------------------------------------------
(* Claims *)

\* The invariants of the data model on a module: sections is a non-empty list of
\* {title, content}; every quiz item has at least 2 options and a correct index
\* inside them.
SectionWellFormed(x) ==
    /\ IsDict(x)
    /\ Has(x, "title")   /\ IsStr(x.v["title"])
    /\ Has(x, "content") /\ IsStr(x.v["content"])

QuizItemWellFormed(x) ==
    /\ IsDict(x)
    /\ Has(x, "options") /\ IsList(x.v["options"]) /\ Len(x.v["options"].v) >= 2
    /\ Has(x, "correct") /\ x.v["correct"].t = "int"
    /\ 0 <= x.v["correct"].v /\ x.v["correct"].v < Len(x.v["options"].v)

SatisfiesDataModel(m) ==
    /\ IsDict(m)
    /\ Has(m, "sections") /\ IsList(m.v["sections"]) /\ Len(m.v["sections"].v) >= 1
    /\ \A i \in DOMAIN m.v["sections"].v : SectionWellFormed(m.v["sections"].v[i])
    /\ Has(m, "quiz") =>
          /\ IsList(m.v["quiz"])
          /\ \A i \in DOMAIN m.v["quiz"].v : QuizItemWellFormed(m.v["quiz"].v[i])

\* a field the schema of the prompt requires is not in the object
MissingRequiredField(m) ==
    \/ ~Has(m, "sections")
    \/ ~Has(m, "quiz")
    \/ /\ Has(m, "sections") /\ IsList(m.v["sections"])
       /\ \E i \in DOMAIN m.v["sections"].v :
             ~Has(m.v["sections"].v[i], "title") \/ ~Has(m.v["sections"].v[i], "content")
    \/ /\ Has(m, "quiz") /\ IsList(m.v["quiz"])
       /\ \E i \in DOMAIN m.v["quiz"].v :
             ~Has(m.v["quiz"].v[i], "options") \/ ~Has(m.v["quiz"].v[i], "correct")

\* a quiz item's correct index is outside its options
CorrectIndexOutOfRange(m) ==
    /\ Has(m, "quiz") /\ IsList(m.v["quiz"])
    /\ \E i \in DOMAIN m.v["quiz"].v :
          LET item == m.v["quiz"].v[i]
          IN  /\ Has(item, "options") /\ Has(item, "correct")
              /\ item.v["correct"].v \notin 0..(Len(item.v["options"].v) - 1)

\* the response is there but is not JSON, lacks a required field, or has a quiz
\* item whose correct index is outside its options
Malformed(b) ==
    \/ b.kind = "not_json"
    \/ /\ b.kind \in JsonKinds
       /\ MissingRequiredField(JsonOf(b)) \/ CorrectIndexOutOfRange(JsonOf(b))

\* C1: whatever the generation service does, the module enhance_content_with_ai
\* returns satisfies the data-model invariants (non-empty sections of {title, body},
\* quiz items with at least 2 options and 0 <= correctIndex < len(options)).
C1_ReturnedModuleSatisfiesDataModel ==
    pc # "enhance" =>
        SatisfiesDataModel(enhance_content_with_ai(text, config.title, service))

\* C2: on a malformed response (not JSON, a required field missing, a correct index
\* outside the options) the module that reaches the renderer is the deterministic
\* fallback of enhance_content_with_ai, as on a transport error.
C2_MalformedResponseYieldsFallback ==
    (pc = "render" /\ Malformed(service)) =>
        /\ enhanced_content = enhance_fallback(text, config.title)
        /\ SatisfiesDataModel(enhanced_content)

ManifestEntries == { i \in DOMAIN zip_fs.entries : zip_fs.entries[i].source = MANIFEST_FILE }
LaunchEntries   == { i \in DOMAIN zip_fs.entries : zip_fs.entries[i].source = config.launch_file }

\* C3: a successful run leaves an archive of exactly two entries, the manifest at
\* imsmanifest.xml and the rendered document, and the document's entry name equals
\* the href of the manifest's resource element and of its file element.
C3_ArchiveEntryNamesMatchManifest ==
    pc = "done" =>
        /\ zip_fs.state = "closed"
        /\ Len(zip_fs.entries) = 2
        /\ \E i \in ManifestEntries : zip_fs.entries[i].name = "imsmanifest.xml"
        /\ LaunchEntries # {}
        /\ \A i \in LaunchEntries :
              /\ zip_fs.entries[i].name = manifest.resources[1].href
              /\ zip_fs.entries[i].name = manifest.resources[1].file[1].href

\* C4: for every descriptor build_manifest_scorm12 gives exactly one organization,
\* one item and one resource, with organizations.default = organization.identifier
\* = org id, item.identifier = "ITEM-" + SCO id, item.identifierref =
\* resource.identifier = SCO id, and resource.href = file.href = launch file name.
C4_ManifestDeclaresOneOrgItemResource ==
    mcall = "returned" =>
        /\ Len(manifest.organizations.organization) = 1
        /\ Len(manifest.organizations.organization[1].item) = 1
        /\ Len(manifest.resources) = 1
        /\ Len(manifest.resources[1].file) = 1
        /\ manifest.organizations.default = config.org_id
        /\ manifest.organizations.organization[1].identifier = config.org_id
        /\ manifest.organizations.organization[1].item[1].identifier = "ITEM-" \o config.sco_id
        /\ manifest.organizations.organization[1].item[1].identifierref = config.sco_id
        /\ manifest.resources[1].identifier = config.sco_id
        /\ manifest.resources[1].href = config.launch_file
        /\ manifest.resources[1].file[1].href = config.launch_file

\* a descriptor whose SCO id is another descriptor's org id and whose launch file lies
\* in a directory has had its manifest built
C4_Witness ==
    /\ mcall = "returned"
    /\ config.sco_id = "ORG-1" /\ config.org_id = "ORG-2"
    /\ config.launch_file = "a/b.htm"
    /\ manifest.resources[1].file[1].href = "a/b.htm"
    /\ manifest.organizations.organization[1].item[1].identifier = "ITEM-ORG-1"

SuccessPrinted ==
    \E i \in DOMAIN stdout : stdout[i] = "SCORM package created successfully!"

CompleteArchive ==
    /\ zip_fs.state = "closed"
    /\ Len(zip_fs.entries) = 2
    /\ \A i \in DOMAIN zip_fs.entries : zip_fs.entries[i].complete

\* C5: a run that fails while writing the launch document, the manifest or the
\* archive ends in a reported failure, never prints the success message and leaves
\* no partial archive at the output path; a run that succeeds leaves one complete
\* two-entry archive.
C5_FailureLeavesNoPartialArchive ==
    /\ pc = "failed" => /\ exit = "exception"
                        /\ ~SuccessPrinted
                        /\ zip_fs = NoZip
    /\ pc = "done" => CompleteArchive

\* p is 100*k/N rounded to the nearest integer
IsRounded(p, k, N) ==
    /\ 2 * (N * p - 100 * k) <= N
    /\ 2 * (100 * k - N * p) <= N

\* C6: with totalSections = N >= 1 and k distinct identifiers in the completion set,
\* the percentage computed and displayed is round(100*k/N).
C6_PercentageIsRoundedShare ==
    html_content.totalSections >= 1 =>
        \E p \in 0..(100 * (Cardinality(completedSections) + 1)) :
            /\ IsRounded(p, Cardinality(completedSections), html_content.totalSections)
            /\ progress = Num(p)
            /\ indicator.text = ToString(p) \o "% Complete"
            /\ indicator.fill = ToString(p) \o "%"

\* three completion events after the load on a page of 3 sections left 2 distinct
\* identifiers in the set (one was completed twice): 67% is displayed
C6_Witness ==
    /\ html_content.totalSections = 3
    /\ Cardinality(completedSections) = 2
    /\ Len(calls) = 13
    /\ win.host = "ok"
    /\ indicator.text = "67% Complete"

IsScoreWrite(c)  == c.op = "LMSSetValue" /\ c.key = "cmi.core.score.raw"
IsStatusWrite(c) == c.op = "LMSSetValue" /\ c.key = "cmi.core.lesson_status"

\* C7: in every report of a Bound bridge the status written is "completed" if the
\* score written just before it is 100 and "incomplete" otherwise, and the score and
\* status writes that went through are followed by the commit.
C7_StatusCompletedIffScore100 ==
    \A i \in DOMAIN calls :
        /\ IsStatusWrite(calls[i]) =>
              /\ i > 1 /\ IsScoreWrite(calls[i - 1]) /\ ~calls[i - 1].threw
              /\ calls[i].value \in {"completed", "incomplete"}
              /\ calls[i].value = "completed" <=> calls[i - 1].value = "100"
        /\ (IsScoreWrite(calls[i]) /\ ~calls[i].threw) =>
              i < Len(calls) /\ IsStatusWrite(calls[i + 1])
        /\ (IsStatusWrite(calls[i]) /\ ~calls[i].threw) =>
              i < Len(calls) /\ calls[i + 1].op = "LMSCommit"

\* a Bound bridge has reported 67 with "incomplete" and then 100 with "completed",
\* each followed by its commit
C7_Witness ==
    \E i, j \in 1..(Len(calls) - 2) :
        /\ i < j
        /\ calls[i].value = "67" /\ calls[i + 1].value = "incomplete"
        /\ calls[i + 2].op = "LMSCommit"
        /\ calls[j].value = "100" /\ calls[j + 1].value = "completed"
        /\ calls[j + 2].op = "LMSCommit"

\* window.API is within MaxHops parents of the chain's first context
ApiWithinReach(chain) ==
    chain.api_at >= 0 /\ chain.api_at <= chain.depth /\ chain.api_at <= MaxHops

Discoverable(w) ==
    \/ ApiWithinReach(w.self)
    \/ w.opener # NoWindow /\ ApiWithinReach(w.opener)

\* C8: with no host API discoverable at load the bridge ends Unbound, makes no host
\* call for the rest of the session, observes every section, and the indicator shows
\* the percentage of the completion set after every addition to it.
C8_UnboundMakesNoHostCall ==
    (page \in {"ready", "unloaded"} /\ ~Discoverable(win)) =>
        /\ API = "null"
        /\ calls = << >>
        /\ observed = SectionIds
        /\ completedSections # {} =>
              indicator = shown(round_percent(Cardinality(completedSections),
                                              html_content.totalSections), indicator)

\* a page whose API object lies beyond MaxHops parents was used and closed: two of
\* its three sections completed, 67% displayed, no host call made
C8_Witness ==
    /\ page = "unloaded"
    /\ win.self = TooDeep
    /\ Cardinality(completedSections) = 2
    /\ indicator.text = "67% Complete"
    /\ calls = << >>

Rendered == html_content # NoDocument

\* the options of a quiz block that the markup flags correct
FlaggedCorrect(block) ==
    { o \in DOMAIN block.options : block.options[o].data_correct = py_str_bool(TRUE) }

\* C9: in the rendered document option j of quiz item i carries the flag
\* (j == correctIndex), so exactly one option of each quiz item is flagged correct.
C9_ExactlyOneOptionFlaggedCorrect ==
    Rendered =>
        \A i \in DOMAIN html_content.quiz_section :
            LET block == html_content.quiz_section[i]
                item  == enhanced_content.v["quiz"].v[i]
            IN  /\ \A o \in DOMAIN block.options :
                      block.options[o].data_correct
                          = py_str_bool(block.options[o].value = item.v["correct"].v)
                /\ Cardinality(FlaggedCorrect(block)) = 1

\* C10: a module with no sections is rendered with a placeholder in place of the
\* content area, and the page's script is not given totalSections = 0.
C10_EmptySectionsRenderPlaceholder ==
    Rendered =>
        /\ html_content.sections # << >>
        /\ html_content.totalSections # 0

\* the characters html.escape replaces
MarkupChars == {"&", "<", ">", "\"", "'"}

NoRawMarkup(s) == \A k \in DOMAIN s : s[k] \notin MarkupChars

\* the places of the document a string of the module or the title is rendered at
ModuleStrings(doc) ==
    {doc.h1, doc.introduction, doc.summary}
    \cup { doc.objectives[i] : i \in DOMAIN doc.objectives }
    \cup { doc.activity[i] : i \in DOMAIN doc.activity }
    \cup { doc.sections[i].h2 : i \in DOMAIN doc.sections }
    \cup { doc.sections[i].content : i \in DOMAIN doc.sections }
    \cup { doc.quiz_section[i].h3 : i \in DOMAIN doc.quiz_section }
    \cup { doc.quiz_section[i].explanation : i \in DOMAIN doc.quiz_section }
    \cup UNION { { doc.quiz_section[i].options[o].span :
                      o \in DOMAIN doc.quiz_section[i].options } :
                 i \in DOMAIN doc.quiz_section }

\* C11: every string of the module (and the title) is in the rendered document only
\* in escaped form: no "<", ">", "&" or quote of the content is in the document as
\* such, in the launch file as in the document built.
C11_RenderedMarkupIsEscaped ==
    /\ Rendered => \A s \in ModuleStrings(html_content) : NoRawMarkup(s)
    /\ launch_fs.state = "written" =>
          \A s \in ModuleStrings(launch_fs.content) : NoRawMarkup(s)

\* a module whose section title has "&", whose section body has "<" and a line feed
\* and whose quiz option has a double quote was rendered and written: the document
\* has "&amp;", "&lt;", the renderer's own <br> and "&quot;" in their places
C11_Witness ==
    /\ launch_fs.state = "written"
    /\ service.kind = "json" /\ service.nS >= 1 /\ service.nQ >= 1
    /\ \E k \in DOMAIN enhanced_content.v["sections"].v[1].v["content"].v :
          enhanced_content.v["sections"].v[1].v["content"].v[k] = "<"
    /\ launch_fs.content.sections[1].h2 = <<"Part ", "&amp;", " parcel">>
    /\ launch_fs.content.sections[1].content = <<"x ", "&lt;", " y", "<br>", "z">>
    /\ launch_fs.content.quiz_section[1].options[1].span = <<"Option ", "&quot;">>

\* C12: when the call to the generation service raises, the module rendered is the
\* fallback of enhance_content_with_ai for the title and the raw text (the welcome
\* sentence naming the title, three fixed objectives, one "Content" section whose
\* body is the raw text, no quiz, the fixed activity and summary), a function of
\* (title, raw text) alone, and never the literal of main's own except branch.
C12_TransportErrorYieldsFallback ==
    (pc # "enhance" /\ service.kind = "transport_error") =>
        LET m == enhanced_content IN
        /\ DOMAIN m.v = {"introduction", "learning_objectives", "sections", "quiz",
                         "activity", "summary"}
        /\ m.v["introduction"] = JStr(<<"Welcome to ">> \o config.title \o
              <<". This lesson will help you understand key concepts and develop practical skills.">>)
        /\ m.v["learning_objectives"] = JList(<<JStr(<<"Understand core concepts">>),
                                                JStr(<<"Apply knowledge practically">>),
                                                JStr(<<"Demonstrate mastery">>)>>)
        /\ m.v["sections"] = JList(<<JDict([title |-> JStr(<<"Content">>),
                                            content |-> JStr(text)])>>)
        /\ m.v["quiz"] = JList(<< >>)
        /\ m.v["activity"].v["title"] = JStr(<<"Practice Exercise">>)
        /\ m.v["activity"].v["description"] =
              JStr(<<"Apply what you", "'", "ve learned in a practical exercise.">>)
        /\ m.v["summary"] =
              JStr(<<"Review the key concepts covered in this lesson and practice applying them.">>)
        /\ m # main_fallback(text, config.title)
        /\ Rendered => html_content = build_enhanced_html(m, config.title)

\* the service raised on a run whose raw text holds markup, and the run finished:
\* the document's one section is "Content" with the raw text, escaped, as its body
C12_Witness ==
    /\ pc = "done"
    /\ service.kind = "transport_error"
    /\ text = <<"a ", "<", "b", ">", LF, "c ", "&", " d">>
    /\ Len(html_content.sections) = 1
    /\ html_content.sections[1].h2 = <<"Content">>
    /\ html_content.sections[1].content =
          <<"a ", "&lt;", "b", "&gt;", "<br>", "c ", "&amp;", " d">>
    /\ Len(html_content.objectives) = 3
    /\ html_content.quiz_section = << >>

\* the correct index of quiz item q in the module the document was rendered from
correctIndex(q) == enhanced_content.v["quiz"].v[q + 1].v["correct"].v

\* this step is checkAnswer(q) taking a submission (the button goes disabled)
Submits(q) == ~quiz_ui[q].disabled /\ quiz_ui'[q].disabled

\* C13: the step in which the user submits, for quiz block q, the option whose index
\* is the item's correct index adds "quiz-q" to the completion set, recomputes the
\* percentage and reports it to a bound host.
C13_CorrectSubmissionCompletesQuiz ==
    [][\A q \in QuizIndexes :
          (Submits(q) /\ quiz_ui[q].checked = correctIndex(q)) =>
              /\ quiz_id(q) \in completedSections'
              /\ progress' = round_percent(Cardinality(completedSections'),
                                           html_content.totalSections)
              /\ API = "API" => Len(calls') > Len(calls)]_vars

\* C14: a section id is added to the completion set only if the section stayed in
\* view for the whole dwell: a step that adds it finds the section still in view,
\* and a section that came into view and left before the dwell elapsed is not added
\* on account of that visit.
C14_SectionAddedOnlyAfterDwellInView ==
    [][\A id \in SectionIds :
          (id \in completedSections' /\ id \notin completedSections) =>
              id \in visible]_vars

\* C15: a submission of an option other than the correct one disables the item's
\* submit button and leaves the completion set, the percentage, the indicator and
\* the host untouched; once the button is disabled no later step takes a submission
\* for the item (button, label and feedback stay, the item's id is not added); and a
\* submit with nothing selected leaves the item as it was.
C15_IncorrectSubmissionOnlyDisables ==
    [][\A q \in QuizIndexes :
          /\ (quiz_ui[q].feedback = "hidden" /\ quiz_ui'[q].feedback # "hidden") =>
                quiz_ui'[q].disabled
          /\ (Submits(q) /\ quiz_ui[q].checked # correctIndex(q)) =>
                /\ quiz_ui[q].checked # -1
                /\ completedSections' = completedSections
                /\ progress' = progress
                /\ indicator' = indicator
                /\ calls' = calls
          /\ quiz_ui[q].disabled =>
                /\ quiz_ui'[q].disabled
                /\ quiz_ui'[q].label = quiz_ui[q].label
                /\ quiz_ui'[q].feedback = quiz_ui[q].feedback
                /\ quiz_id(q) \in completedSections' <=> quiz_id(q) \in completedSections
          /\ quiz_ui[q].checked = -1 => quiz_ui'[q] = [quiz_ui[q] EXCEPT !.checked = quiz_ui'[q].checked]
      ]_vars

\* on a bound page with one section completed, option 1 of quiz block 0 (whose
\* correct index is 0) was submitted: the button is disabled, the feedback is
\* "incorrect", and the completion set holds the section only
C15_Witness ==
    /\ page = "ready"
    /\ API = "API"
    /\ 0 \in QuizIndexes
    /\ correctIndex(0) = 0
    /\ quiz_ui[0] = [checked |-> 1, disabled |-> TRUE, label |-> "Try Again",
                     feedback |-> "incorrect"]
    /\ completedSections = {"section-0"}
    /\ html_content.totalSections = 2
    /\ progress = Num(50)

\* the host threw on one of the calls made so far
HostThrew == \E i \in DOMAIN calls : calls[i].threw

\* C16: with a host that throws on initialize, on a setValue, on commit or on finish,
\* every handler still runs to its end as with a host that answers: init goes on to
\* observe the sections and to register the unload handler, each completion event
\* adds its id, and the percentage and the indicator are those of the completion
\* set; teardown leaves the document as it is.
C16_HostFailuresAreSwallowed ==
    [][win.host \in HostFaults =>
          /\ page' # "loading" =>
                /\ observed' = SectionIds
                /\ unload_handler'
                /\ progress' = round_percent(Cardinality(completedSections'),
                                             html_content.totalSections)
                /\ indicator' = shown(progress', indicator')
                /\ progress'.kind = "number" =>
                      indicator'.fill = js_to_string(progress') \o "%"
          /\ \A id \in SectionIds :
                timers'[id] < timers[id] => completedSections' = completedSections \cup {id}
          /\ page' = "unloaded" =>
                <<completedSections', progress', indicator'>> =
                    <<completedSections, progress, indicator>>
      ]_vars

\* the host threw on the score write of the load and of each of three completion
\* events (two sections of three, one twice): the set has both, 67% is displayed
C16_Witness ==
    /\ win.host = "score_throws"
    /\ html_content.totalSections = 3
    /\ Cardinality(completedSections) = 2
    /\ indicator = [fill |-> "67%", text |-> "67% Complete"]
    /\ Len(calls) = 5
    /\ \A i \in 2..5 : calls[i].threw

\* C17: on every chain of parent contexts (longer than 500, or a context that is its
\* own parent) findAPI makes at most 500 hops, each one counted, and init ends
\* with one outcome: the bridge leaves its initial state once, with the API object
\* if one is within reach and with none otherwise, and keeps that for good.
C17_DiscoveryTerminatesOnce ==
    /\ [][/\ walk'.n <= MaxHops
          /\ (walk' # walk /\ walk'.on = walk.on) =>
                walk'.n = walk.n + 1 /\ walk'.w = walk.w + 1
          /\ walk.on = "opener" => walk'.on = "opener"
          /\ page = "loading" => API = "null" /\ calls = << >>
          /\ (page = "loading" /\ page' # "loading") =>
                /\ API' = "API" <=> Discoverable(win)
                /\ API' = "null" <=> ~Discoverable(win)
          /\ page # "loading" => page' # "loading" /\ API' = API /\ walk' = walk
         ]_vars
    /\ <>(page # "loading")

\* the window is 500 parents below the context holding the API object: findAPI made
\* 500 hops and found it, and the bridge is bound
C17_Witness ==
    /\ page = "ready"
    /\ win.self = Deepest
    /\ walk = [on |-> "self", w |-> MaxHops, n |-> MaxHops]
    /\ API = "API"
    /\ Len(calls) >= 4

Finishes == { i \in DOMAIN calls : calls[i].op = "LMSFinish" }

\* C18: the host is called by a bound bridge only; LMSInitialize is its first call,
\* made once, so it precedes every LMSSetValue, LMSCommit and LMSFinish; LMSFinish is
\* made at teardown, once and last, if and only if the bridge is bound.
C18_InitializeFirstFinishIffBound ==
    /\ calls # << >> =>
          /\ API = "API"
          /\ calls[1].op = "LMSInitialize"
          /\ \A i \in DOMAIN calls : calls[i].op = "LMSInitialize" => i = 1
    /\ page = "ready" => (API = "API" <=> calls # << >>)
    /\ page # "unloaded" => Finishes = {}
    /\ page = "unloaded" =>
          /\ API = "API" <=> Finishes # {}
          /\ Finishes \subseteq {Len(calls)}

\* a bound page was loaded, saw two completion events and was closed: LMSInitialize,
\* three reports of score, status and commit, LMSFinish
C18_Witness ==
    /\ page = "unloaded"
    /\ API = "API"
    /\ win.host = "ok"
    /\ Len(calls) = 11
    /\ calls[1].op = "LMSInitialize"
    /\ \A i \in 2..10 : calls[i].op \in {"LMSSetValue", "LMSCommit"}
    /\ calls[11].op = "LMSFinish"

\* a < b and a > b of JS numbers: false when either is NaN
js_lt(a, b) ==
    /\ a.kind # "NaN" /\ b.kind # "NaN"
    /\ \/ a.kind = "number" /\ b.kind = "Infinity"
       \/ a.kind = "number" /\ b.kind = "number" /\ a.n < b.n

js_gt(a, b) == js_lt(b, a)

\* the status writes made so far that went out with this value
StatusWrites(value) == { i \in DOMAIN calls : IsStatusWrite(calls[i]) /\ calls[i].value = value }

====
